---- MODULE Spec2Model ----
(***************************************************************************)
(* LightNetwork of pereggrn_networks.py: a read-only view over a list of   *)
(* parquet files plus an optional in-memory DataFrame, queried through     *)
(* duckdb SQL text and pandas.  Strings that the code formats, parses or   *)
(* tests (paths, gene names, SQL literals) are sequences of one-character  *)
(* strings, so that formatting and parsing are computed, not assumed.      *)
(***************************************************************************)
EXTENDS Integers, Sequences, FiniteSets, Bags, TLC

VARIABLES fs, heap, net, cp, ret, ctorMissing

vars == <<fs, heap, net, cp, ret, ctorMissing>>

(***************************** bounds **************************************)
MaxRowsA == 2      \* rows of the first partition file at start
MaxFileRows == 3   \* save() is not taken when it would write more rows

(***************************** text ****************************************)
QUOTE == "'"
SLASH == "/"
DOT_PARQUET == <<".", "p", "a", "r", "q", "u", "e", "t">>
NETWORKS == <<"n", "e", "t", "w", "o", "r", "k", "s">>
INDEX_LEVEL_0 == "__index_level_0__"
EXPECTED_GRN_COLNAMES == <<"regulator", "target", "weight">>
Cols4 == <<"regulator", "target", "weight", "cell_type">>
QueryableFields == {"regulator", "target", "cell_type"}

\* str.lower(), on the letters that occur in the paths of this model
LowerChar(c) ==
  CASE c = "P" -> "p" [] c = "A" -> "a" [] c = "R" -> "r" [] c = "Q" -> "q"
    [] c = "U" -> "u" [] c = "E" -> "e" [] c = "T" -> "t" [] c = "O" -> "o"
    [] OTHER -> c

Lower(s) == [i \in 1..Len(s) |-> LowerChar(s[i])]

EndsWith(s, suffix) ==
  /\ Len(s) >= Len(suffix)
  /\ SubSeq(s, Len(s) - Len(suffix) + 1, Len(s)) = suffix

StartsWith(s, prefix) ==
  /\ Len(s) >= Len(prefix)
  /\ SubSeq(s, 1, Len(prefix)) = prefix

\* os.path.join of relative components
PathJoin(parts) ==
  LET RECURSIVE J(_)
      J(i) == IF i = 1 THEN parts[1] ELSE J(i - 1) \o <<SLASH>> \o parts[i]
  IN J(Len(parts))

\* A cell without a value (SQL NULL, pandas NaN/None).  Not a text: every
\* element of a text is a single character.
Null == <<"<NULL>">>

\* the text of a small non-negative integer
Digits == <<"0", "1", "2", "3", "4", "5", "6", "7", "8", "9">>
IntText(n) == IF n < 10 THEN <<Digits[n + 1]>> ELSE <<Digits[(n \div 10) + 1], Digits[(n % 10) + 1]>>

(***************************** data ****************************************)
TF1 == <<"T", "F", "1">>
TF2 == <<"T", "F", "2">>
G1 == <<"G", "1">>
Gq == <<"G", "'">>             \* a gene name that holds a quote character
W5 == <<"5">>
CT == <<"c", "t">>

\* the edges the tables of the model are made of
Edges == << <<TF1, G1, W5>>, <<TF2, Gq, W5>>, <<TF1, Null, W5>> >>

BadCols == <<"source", "target", "weight">>

GRN_PATH == <<"r">>
GrnG == <<"g">>
GrnH == <<"h">>
NameA == <<"a">> \o DOT_PARQUET
NameB == <<"b">> \o DOT_PARQUET
NameZ == <<"z">> \o DOT_PARQUET
PathA == PathJoin(<<GRN_PATH, GrnG, NETWORKS, NameA>>)
PathB == PathJoin(<<GRN_PATH, GrnG, NETWORKS, NameB>>)
PathOut == <<"o">> \o DOT_PARQUET
PathCsv == <<"o", ".", "c", "s", "v">>

\* sequences of edges of length at most n, one per multiset
EdgeSeqs(n) ==
  UNION { { [i \in 1..k |-> Edges[s[i]]] :
              s \in { t \in [1..k -> 1..Len(Edges)] :
                        \A i \in 1..k : \A j \in 1..k : i < j => t[i] <= t[j] } } :
          k \in 0..n }

WithCellType(rows) == [i \in 1..Len(rows) |-> Append(rows[i], CT)]

\* the contents a parquet file or a DataFrame may have
TablesOf(cols, rowseqs) == { [columns |-> cols, rows |-> r] : r \in rowseqs }

TablesA == TablesOf(EXPECTED_GRN_COLNAMES, EdgeSeqs(MaxRowsA))
TablesB ==
  TablesOf(EXPECTED_GRN_COLNAMES, { <<Edges[1]>>, <<Edges[2]>> })
    \cup TablesOf(Cols4, { WithCellType(<<Edges[1]>>) })
    \cup TablesOf(BadCols, { <<Edges[1]>> })

NoDf == [isNone |-> TRUE, columns |-> <<>>, rows |-> <<>>]
AsDf(t) == [isNone |-> FALSE, columns |-> t.columns, rows |-> t.rows]
DfArgs ==
  {NoDf}
    \cup { AsDf(t) : t \in TablesOf(EXPECTED_GRN_COLNAMES, { <<Edges[1]>> }) }
    \cup { AsDf(t) : t \in TablesOf(Cols4, { WithCellType(<<Edges[1]>>) }) }
    \cup { AsDf(t) : t \in TablesOf(BadCols, { <<Edges[1]>> }) }

(***************************** frames **************************************)
OK == "ok"

Frame(cols, rows, index) ==
  [status |-> OK, columns |-> cols, rows |-> rows, index |-> index]

Raised(kind) == [status |-> kind, columns |-> <<>>, rows |-> <<>>, index |-> <<>>]

\* pd.DataFrame()
EmptyFrame == Frame(<<>>, <<>>, <<>>)

RangeIndex(n) == [i \in 1..n |-> i - 1]

HasCol(cols, name) == \E i \in 1..Len(cols) : cols[i] = name

ColIndex(cols, name) == CHOOSE i \in 1..Len(cols) : cols[i] = name

RECURSIVE Distinct(_)
\* the rows of s without repetition
Distinct(s) ==
  IF s = <<>> THEN <<>>
  ELSE LET front == Distinct(SubSeq(s, 1, Len(s) - 1))
           last == s[Len(s)]
       IN IF \E i \in 1..Len(front) : front[i] = last THEN front ELSE Append(front, last)

RECURSIVE Filter(_, _, _)
Filter(rows, i, v) ==
  IF rows = <<>> THEN <<>>
  ELSE LET rest == Filter(Tail(rows), i, v)
       IN IF Head(rows)[i] # Null /\ Head(rows)[i] = v THEN <<Head(rows)>> \o rest ELSE rest

RECURSIVE Flatten(_)
Flatten(ss) == IF ss = <<>> THEN <<>> ELSE Head(ss) \o Flatten(Tail(ss))

(***************************** duckdb **************************************)
\* f"'{x}'": the value between two quote characters
Quoted(x) == <<QUOTE>> \o x \o <<QUOTE>>

RECURSIVE ScanLiteral(_, _, _)
\* Reads the SQL string literal whose opening quote is text[1], from position
\* i on: two adjacent quotes are one quote character of the value, a single
\* quote ends the literal.  No text of this model holds white space or an
\* operator, so anything left after the closing quote is a syntax error, as
\* is a literal that is never closed.
ScanLiteral(text, i, acc) ==
  IF i > Len(text) THEN [ok |-> FALSE, val |-> acc]
  ELSE IF text[i] = QUOTE
       THEN IF i + 1 <= Len(text) /\ text[i + 1] = QUOTE
            THEN ScanLiteral(text, i + 2, Append(acc, QUOTE))
            ELSE [ok |-> i = Len(text), val |-> acc]
       ELSE ScanLiteral(text, i + 1, Append(acc, text[i]))

ParseLiteral(text) == ScanLiteral(text, 2, <<>>)

Rel(cols, rows) == [status |-> OK, columns |-> cols, rows |-> rows]

SqlError(kind) == [status |-> kind, columns |-> <<>>, rows |-> <<>>]

\* FROM '<file>': the table of the parquet file the literal names
FromFile(fileText, fsys) ==
  LET lit == ParseLiteral(fileText)
  IN IF ~lit.ok THEN SqlError("ParserException")
     ELSE IF lit.val \notin DOMAIN fsys THEN SqlError("IOException")
     ELSE Rel(fsys[lit.val].columns, fsys[lit.val].rows)

\* SELECT * FROM <rel> WHERE <col> = '<value>', the value interpolated as is
SelectWhere(rel, col, value) ==
  LET lit == ParseLiteral(Quoted(value))
  IN IF ~lit.ok THEN SqlError("ParserException")
     ELSE IF rel.status # OK THEN rel
     ELSE IF ~HasCol(rel.columns, col) THEN SqlError("BinderException")
     ELSE Rel(rel.columns, Filter(rel.rows, ColIndex(rel.columns, col), lit.val))

\* SELECT DISTINCT <field> FROM <rel>
SelectDistinct(rel, field) ==
  IF rel.status # OK THEN rel
  ELSE IF ~HasCol(rel.columns, field) THEN SqlError("BinderException")
  ELSE Rel(<<field>>,
           Distinct([i \in 1..Len(rel.rows) |-> <<rel.rows[i][ColIndex(rel.columns, field)]>>]))

\* " UNION ".join(selects): one select is run as it is; two or more are
\* combined by position under the first select's column names, need the same
\* number of columns, and lose every repeated row.
SqlUnionAll(selects) ==
  LET bad == { i \in 1..Len(selects) : selects[i].status # OK }
  IN IF bad # {} THEN selects[CHOOSE i \in bad : \A j \in bad : i <= j]
     ELSE IF Len(selects) = 1 THEN selects[1]
     ELSE IF \E i \in 1..Len(selects) : Len(selects[i].columns) # Len(selects[1].columns)
          THEN SqlError("BinderException")
     ELSE Rel(selects[1].columns, Flatten([i \in 1..Len(selects) |-> selects[i].rows]))

SqlUnion(selects) ==
  LET all == SqlUnionAll(selects)
  IN IF all.status = OK /\ Len(selects) > 1 THEN Rel(all.columns, Distinct(all.rows)) ELSE all

\* .df(): the relation as a DataFrame with a fresh RangeIndex
ToDf(rel) ==
  IF rel.status # OK THEN Raised(rel.status)
  ELSE Frame(rel.columns, rel.rows, RangeIndex(Len(rel.rows)))

(***************************** pandas **************************************)
\* the columns of b that a does not have, in b's order
RECURSIVE NewCols(_, _)
NewCols(a, b) ==
  IF b = <<>> THEN <<>>
  ELSE IF HasCol(a, Head(b)) THEN NewCols(a, Tail(b)) ELSE <<Head(b)>> \o NewCols(a, Tail(b))

Realign(cols, frame) ==
  [i \in 1..Len(frame.rows) |->
     [c \in 1..Len(cols) |->
        IF HasCol(frame.columns, cols[c])
        THEN frame.rows[i][ColIndex(frame.columns, cols[c])]
        ELSE Null]]

\* pd.concat([a, b]): union of the columns, rows of a then rows of b, each
\* row keeping its index label (an empty part leaves the index of the other
\* part as it is)
Concat(a, b) ==
  LET cols == a.columns \o NewCols(a.columns, b.columns)
  IN Frame(cols, Realign(cols, a) \o Realign(cols, b), a.index \o b.index)

IsRangeIndex(index) == index = RangeIndex(Len(index))

\* DataFrame.to_parquet(filename) with the default index=None: a RangeIndex
\* goes to the metadata, any other index is written as a last column
ToParquet(frame) ==
  IF IsRangeIndex(frame.index)
  THEN [columns |-> frame.columns, rows |-> frame.rows]
  ELSE [columns |-> Append(frame.columns, INDEX_LEVEL_0),
        rows |-> [i \in 1..Len(frame.rows) |-> Append(frame.rows[i], IntText(frame.index[i]))]]

(***************************** file system *********************************)
IsDir(path, fsys) == \E p \in DOMAIN fsys : StartsWith(p, Append(path, SLASH))

\* os.path.exists
Exists(path, fsys) == path \in DOMAIN fsys \/ IsDir(path, fsys)

RECURSIVE FirstComponent(_)
FirstComponent(p) ==
  IF p = <<>> \/ Head(p) = SLASH THEN <<>> ELSE <<Head(p)>> \o FirstComponent(Tail(p))

RECURSIVE SetToSeq(_)
\* the elements of S in one fixed order (os.listdir promises no order)
SetToSeq(S) ==
  IF S = {} THEN <<>>
  ELSE LET x == CHOOSE y \in S : TRUE IN <<x>> \o SetToSeq(S \ {x})

\* list_subnetworks: [status, names]
list_subnetworks(grn_name, fsys) ==
  LET dir == PathJoin(<<GRN_PATH, grn_name, NETWORKS>>)
      entries == { FirstComponent(SubSeq(p, Len(dir) + 2, Len(p))) :
                     p \in { q \in DOMAIN fsys : StartsWith(q, Append(dir, SLASH)) } }
  IN IF ~IsDir(dir, fsys)
     THEN [status |-> "FileNotFoundError", names |-> <<>>]
     ELSE [status |-> OK,
           names |-> SetToSeq({ f \in entries : ~StartsWith(f, <<".">>) })]

(***************************** LightNetwork ********************************)
\* An instance holds references: self.files and self.df are positions in the
\* heap of Python objects; df = 0 is None.
NoInst == [live |-> FALSE, files |-> 0, df |-> 0]

Inst(files, df) == [live |-> TRUE, files |-> files, df |-> df]

FilesOf(self, h) == h[self.files]

DfOf(self, h) == IF self.df = 0 THEN NoDf ELSE h[self.df]

\* df.columns[0:3] == ['regulator', 'target', 'weight'] and the 4th-column rule
DfColumnsOk(df) ==
  /\ Len(df.columns) >= 3
  /\ SubSeq(df.columns, 1, 3) = EXPECTED_GRN_COLNAMES
  /\ (Len(df.columns) = 3 \/ df.columns[4] = "cell_type")

\* AllExist without the os.path.exists test
AllExist_unchecked(files, fsys) == TRUE

\* for f in self.files: os.path.exists(f)
AllExist(files, fsys) == \A i \in 1..Len(files) : Exists(files[i], fsys)

\* LightNetwork.__init__; files and df are heap positions of the caller's
\* objects, grn_name = Null is None.  Gives the outcome, the instance, the
\* heap and the final file list.
LightNetwork(grn_name, subnetwork_names, files, df, h, fsys) ==
  LET fail(kind) == [status |-> kind, self |-> NoInst, heap |-> h, final |-> <<>>]
      listed == IF grn_name # Null /\ Len(subnetwork_names) = 0
                THEN list_subnetworks(grn_name, fsys)
                ELSE [status |-> OK, names |-> subnetwork_names]
      resolved == [i \in 1..Len(listed.names) |->
                     PathJoin(<<GRN_PATH, grn_name, NETWORKS, listed.names[i]>>)]
      \* files = files + [...] builds a new list object
      h2 == IF grn_name # Null THEN Append(h, h[files] \o resolved) ELSE h
      files2 == IF grn_name # Null THEN Len(h2) ELSE files
      dfv == IF df = 0 THEN NoDf ELSE h[df]
  IN IF grn_name = Null /\ Len(subnetwork_names) > 0 THEN fail("ValueError")
     ELSE IF listed.status # OK THEN fail(listed.status)
     ELSE IF Len(h2[files2]) = 0 /\ df = 0
          THEN [fail("ValueError") EXCEPT !.final = h2[files2]]
     ELSE IF df # 0 /\ ~DfColumnsOk(dfv)
          THEN [fail("AssertionError") EXCEPT !.final = h2[files2]]
     ELSE IF ~AllExist(h2[files2], fsys)
          THEN [fail("FileNotFoundError") EXCEPT !.final = h2[files2]]
     ELSE [status |-> OK, self |-> Inst(files2, df), heap |-> h2, final |-> h2[files2]]

\* files_formatted = [f"'{file}'" for file in self.files]
files_formatted(self, h) == [i \in 1..Len(FilesOf(self, h)) |-> Quoted(FilesOf(self, h)[i])]

\* the relation of the in-memory table
FromDf(df) == Rel(df.columns, df.rows)

\* what get_all, get_regulators and get_targets share: the UNION over the
\* files, the same select on df, and pd.concat of the two
Query(self, h, fsys, filtered, col, value) ==
  LET ff == files_formatted(self, h)
      sel(rel) == IF filtered THEN SelectWhere(rel, col, value) ELSE rel
      results_from_parquet ==
        IF Len(ff) > 0
        THEN ToDf(SqlUnion([i \in 1..Len(ff) |-> sel(FromFile(ff[i], fsys))]))
        ELSE EmptyFrame
      results_from_memory ==
        IF self.df # 0 THEN ToDf(sel(FromDf(DfOf(self, h)))) ELSE EmptyFrame
  IN IF results_from_parquet.status # OK THEN results_from_parquet
     ELSE IF results_from_memory.status # OK THEN results_from_memory
     ELSE Concat(results_from_parquet, results_from_memory)

get_all(self, h, fsys) == Query(self, h, fsys, FALSE, "", <<>>)

get_regulators(self, h, fsys, target) == Query(self, h, fsys, TRUE, "target", target)

get_targets(self, h, fsys, regulator) == Query(self, h, fsys, TRUE, "regulator", regulator)

\* FilesWithField that keeps every file
FilesWithField_unfiltered(ff, field, fsys) == ff

\* the files whose columns hold the field (SELECT * FROM file WHERE 1=0)
FilesWithField(ff, field, fsys) ==
  SelectSeq(ff, LAMBDA file : HasCol(FromFile(file, fsys).columns, field))

\* get_all_one_field: [status, vals]
get_all_one_field(self, h, fsys, field) ==
  LET ff == FilesWithField(files_formatted(self, h), field, fsys)
      results_from_parquet ==
        IF Len(files_formatted(self, h)) > 0 /\ Len(ff) > 0
        THEN ToDf(SqlUnion([i \in 1..Len(ff) |-> SelectDistinct(FromFile(ff[i], fsys), field)]))
        ELSE Frame(<<field>>, <<>>, <<>>)
      results_from_memory ==
        IF self.df # 0 /\ HasCol(DfOf(self, h).columns, field)
        THEN ToDf(SelectDistinct(FromDf(DfOf(self, h)), field))
        ELSE Frame(<<field>>, <<>>, <<>>)
      both == Concat(results_from_parquet, results_from_memory)
  IN IF field \notin QueryableFields THEN [status |-> "AssertionError", vals |-> {}]
     ELSE IF results_from_parquet.status # OK
          THEN [status |-> results_from_parquet.status, vals |-> {}]
     ELSE [status |-> OK, vals |-> { both.rows[i][1] : i \in 1..Len(both.rows) }]

get_all_regulators(self, h, fsys) == get_all_one_field(self, h, fsys, "regulator")

\* CountUnion over UNION ALL
CountUnion_all(selects) ==
  LET u == SqlUnionAll(selects)
  IN [status |-> u.status, num |-> Len(u.rows)]

\* SELECT COUNT(*) FROM ( ... UNION ... )
CountUnion(selects) ==
  LET u == SqlUnion(selects)
  IN [status |-> u.status, num |-> Len(u.rows)]

\* get_num_edges: [status, num]
get_num_edges(self, h, fsys) ==
  LET ff == files_formatted(self, h)
      results_from_parquet ==
        IF Len(ff) > 0
        THEN CountUnion([i \in 1..Len(ff) |-> FromFile(ff[i], fsys)])
        ELSE [status |-> OK, num |-> 0]
      results_from_memory == IF self.df # 0 THEN Len(DfOf(self, h).rows) ELSE 0
  IN IF results_from_parquet.status # OK THEN results_from_parquet
     ELSE [status |-> OK, num |-> results_from_parquet.num + results_from_memory]

\* the test of save() on the file name
ValidSaveName(filename) == EndsWith(Lower(filename), DOT_PARQUET)

\* save: [status, fs, frame], frame the get_all() result it wrote
save(self, h, fsys, filename) ==
  LET all == get_all(self, h, fsys)
  IN IF ~ValidSaveName(filename)
     THEN [status |-> "ValueError", fs |-> fsys, frame |-> EmptyFrame]
     ELSE IF all.status # OK THEN [status |-> all.status, fs |-> fsys, frame |-> all]
     ELSE [status |-> OK,
           fs |-> [p \in DOMAIN fsys \cup {filename} |->
                     IF p = filename THEN ToParquet(all) ELSE fsys[p]],
           frame |-> all]

\* copy that passes a new list, as LightNetwork(files = list(self.files), ...)
copy_new_list(self, h, fsys) ==
  LightNetwork(Null, <<>>, Len(h) + 1, self.df, Append(h, h[self.files]), fsys)

\* copy: LightNetwork(files = self.files, df = self.df)
copy(self, h, fsys) == LightNetwork(Null, <<>>, self.files, self.df, h, fsys)

(***************************** the program *********************************)
\* ret describes the last call: the operation, its argument, its outcome and
\* its result.
R(op, arg, status, frame, vals, num, missing) ==
  [op |-> op, arg |-> arg, status |-> status, frame |-> frame,
   vals |-> vals, num |-> num, missing |-> missing]

CtorArg(grn_name, subnetwork_names, files) ==
  [grn_name |-> grn_name, subnetwork_names |-> subnetwork_names, files |-> files]

FileArgs == { <<>>, <<PathA>>, <<PathB>>, <<PathOut>> }

\* the (grn_name, subnetwork_names, files) a caller constructs with
CtorArgs ==
  { CtorArg(Null, <<>>, f) : f \in FileArgs }
    \cup { CtorArg(GrnG, s, <<>>) : s \in { <<>>, <<NameA>>, <<NameZ>> } }
    \cup { CtorArg(GrnH, <<>>, <<>>), CtorArg(Null, <<NameA>>, <<>>),
           CtorArg(GrnG, <<NameA>>, <<PathB>>) }

TargetArgs == {G1, Gq}
RegulatorArgs == {TF1}
FieldArgs == QueryableFields \cup {"weight"}
SaveArgs == {PathA, PathOut, PathCsv}

Init ==
  /\ \E a \in TablesA : \E b \in TablesB : fs = (PathA :> a) @@ (PathB :> b)
  /\ heap = <<>>
  /\ net = NoInst
  /\ cp = NoInst
  /\ ret = R("none", <<>>, OK, EmptyFrame, {}, 0, FALSE)
  /\ ctorMissing = FALSE

\* net = LightNetwork(grn_name, subnetwork_names, files, df) on fresh objects.
\* ret.arg is the column list of df; ret.missing and ctorMissing record that a
\* path of the final file list did not exist when the constructor ran.  A
\* behaviour holds one constructor call, its first step; when the call raises,
\* the objects passed to it are dropped with it.
Construct(grn_name, subnetwork_names, files, df) ==
  /\ ~net.live
  /\ ret.op = "none"
  /\ LET h0 == Append(heap, files) \o (IF df.isNone THEN <<>> ELSE <<df>>)
         r == LightNetwork(grn_name, subnetwork_names, Len(heap) + 1,
                           IF df.isNone THEN 0 ELSE Len(heap) + 2, h0, fs)
     IN /\ net' = r.self
        /\ heap' = IF r.status = OK THEN r.heap ELSE heap
        /\ ret' = R("construct", df.columns, r.status, EmptyFrame, {}, 0,
                    \E i \in 1..Len(r.final) : ~Exists(r.final[i], fs))
        /\ ctorMissing' = \E i \in 1..Len(r.final) : ~Exists(r.final[i], fs)
  /\ UNCHANGED <<fs, cp>>

GetAll ==
  /\ net.live
  /\ LET r == get_all(net, heap, fs)
     IN ret' = R("get_all", <<>>, r.status, r, {}, 0, FALSE)
  /\ cp' = NoInst
  /\ UNCHANGED <<fs, heap, net, ctorMissing>>

GetRegulators(target) ==
  /\ net.live
  /\ LET r == get_regulators(net, heap, fs, target)
     IN ret' = R("get_regulators", target, r.status, r, {}, 0, FALSE)
  /\ cp' = NoInst
  /\ UNCHANGED <<fs, heap, net, ctorMissing>>

GetTargets(regulator) ==
  /\ net.live
  /\ LET r == get_targets(net, heap, fs, regulator)
     IN ret' = R("get_targets", regulator, r.status, r, {}, 0, FALSE)
  /\ cp' = NoInst
  /\ UNCHANGED <<fs, heap, net, ctorMissing>>

GetAllOneField(field) ==
  /\ net.live
  /\ LET r == get_all_one_field(net, heap, fs, field)
     IN ret' = R("get_all_one_field", <<field>>, r.status, EmptyFrame, r.vals, 0, FALSE)
  /\ cp' = NoInst
  /\ UNCHANGED <<fs, heap, net, ctorMissing>>

GetAllRegulators ==
  /\ net.live
  /\ LET r == get_all_regulators(net, heap, fs)
     IN ret' = R("get_all_regulators", <<>>, r.status, EmptyFrame, r.vals, 0, FALSE)
  /\ cp' = NoInst
  /\ UNCHANGED <<fs, heap, net, ctorMissing>>

GetNumEdges ==
  /\ net.live
  /\ LET r == get_num_edges(net, heap, fs)
     IN ret' = R("get_num_edges", <<>>, r.status, EmptyFrame, {}, r.num, FALSE)
  /\ cp' = NoInst
  /\ UNCHANGED <<fs, heap, net, ctorMissing>>

Save(filename) ==
  /\ net.live
  /\ LET r == save(net, heap, fs, filename)
     IN /\ Len(r.frame.rows) <= MaxFileRows
        /\ fs' = r.fs
        /\ ret' = R("save", filename, r.status, r.frame, {}, 0, FALSE)
  /\ cp' = NoInst
  /\ UNCHANGED <<heap, net, ctorMissing>>

\* cp = net.copy(); the caller holds the copy until its next call
Copy ==
  /\ net.live
  /\ ~cp.live
  /\ LET r == copy(net, heap, fs)
     IN /\ cp' = r.self
        /\ heap' = r.heap
        /\ ret' = R("copy", <<>>, r.status, EmptyFrame, {}, 0,
                    \E i \in 1..Len(r.final) : ~Exists(r.final[i], fs))
  /\ UNCHANGED <<fs, net, ctorMissing>>

Next ==
  \/ \E a \in CtorArgs : \E d \in DfArgs :
       Construct(a.grn_name, a.subnetwork_names, a.files, d)
  \/ GetAll
  \/ \E t \in TargetArgs : GetRegulators(t)
  \/ \E r \in RegulatorArgs : GetTargets(r)
  \/ \E f \in FieldArgs : GetAllOneField(f)
  \/ GetAllRegulators
  \/ GetNumEdges
  \/ \E p \in SaveArgs : Save(p)
  \/ Copy

Spec == Init /\ [][Next]_vars

TypeOK ==
  /\ net.live => net.files \in 1..Len(heap)
  /\ cp.live => net.live

(***************************** vocabulary of the claims *********************)
Range(q) == { q[i] : i \in 1..Len(q) }

\* the multiset of the elements of a sequence
BagOf(q) == [x \in Range(q) |-> Cardinality({ i \in 1..Len(q) : q[i] = x })]

RECURSIVE SumSeq(_)
SumSeq(q) == IF q = <<>> THEN 0 ELSE Head(q) + SumSeq(Tail(q))

\* the tables an instance is made of: its files in list order, then its df
Constituents(self, h, fsys) ==
  [i \in 1..Len(FilesOf(self, h)) |-> fsys[FilesOf(self, h)[i]]]
    \o (IF self.df = 0 THEN <<>> ELSE << [columns |-> DfOf(self, h).columns,
                                         rows |-> DfOf(self, h).rows] >>)

ContractedColumns(cols) ==
  /\ Len(cols) \in {3, 4}
  /\ SubSeq(cols, 1, 3) = EXPECTED_GRN_COLNAMES
  /\ (Len(cols) = 4 => cols[4] = "cell_type")

\* the columns of an in-memory table the constructor lets through
TablePassesAssertions(cols) ==
  /\ Len(cols) >= 3
  /\ <<cols[1], cols[2], cols[3]>> = <<"regulator", "target", "weight">>
  /\ (Len(cols) > 3 => cols[4] = "cell_type")

WellFormed(self, h, fsys) ==
  \A i \in 1..Len(Constituents(self, h, fsys)) :
    ContractedColumns(Constituents(self, h, fsys)[i].columns)

\* the rows of a table under the given columns, by column name
RowsUnder(cols, t) ==
  [i \in 1..Len(t.rows) |->
     [c \in 1..Len(cols) |->
        IF HasCol(t.columns, cols[c]) THEN t.rows[i][ColIndex(t.columns, cols[c])] ELSE Null]]

AllRowsUnder(cols, self, h, fsys) ==
  Flatten([i \in 1..Len(Constituents(self, h, fsys)) |->
             RowsUnder(cols, Constituents(self, h, fsys)[i])])

RowCounts(self, h, fsys) ==
  [i \in 1..Len(Constituents(self, h, fsys)) |-> Len(Constituents(self, h, fsys)[i].rows)]

ColumnValues(t, field) ==
  IF HasCol(t.columns, field)
  THEN { t.rows[i][ColIndex(t.columns, field)] : i \in 1..Len(t.rows) }
  ELSE {}

FieldValues(self, h, fsys, field) ==
  UNION { ColumnValues(Constituents(self, h, fsys)[i], field) :
            i \in 1..Len(Constituents(self, h, fsys)) }

NoMissingTarget(self, h, fsys) == Null \notin FieldValues(self, h, fsys, "target")

NoOverlap(self, h, fsys) ==
  LET cs == Constituents(self, h, fsys)
  IN \A i \in 1..Len(cs) : \A j \in 1..Len(cs) :
       i # j => Range(RowsUnder(Cols4, cs[i])) \cap Range(RowsUnder(Cols4, cs[j])) = {}

\* the instance a caller builds from one file alone, and its get_all()
Reloaded(filename, fsys) == LightNetwork(Null, <<>>, 1, 0, << <<filename>> >>, fsys)

ReloadedAll(filename, fsys) ==
  get_all(Reloaded(filename, fsys).self, Reloaded(filename, fsys).heap, fsys)

(***************************** claims **************************************)
\* C1 (as claimed): the rows get_all() returns are, as a multiset, the sum of
\* the rows of every partition file and of the in-memory table.
C1_GetAllIsBagSum ==
  (ret.op = "get_all" /\ ret.status = OK /\ WellFormed(net, heap, fs))
    => BagOf(ret.frame.rows) = BagOf(AllRowsUnder(ret.frame.columns, net, heap, fs))

\* C2 (as claimed): get_num_edges() is the sum of the row counts of the
\* constituents, every occurrence of an edge counted.
C2_NumEdgesIsRawSum ==
  (ret.op = "get_num_edges" /\ ret.status = OK /\ WellFormed(net, heap, fs))
    => ret.num = SumSeq(RowCounts(net, heap, fs))

\* C3: get_all_one_field(field), field one of regulator, target, cell_type,
\* succeeds and returns exactly the set of the values of that column over the
\* constituents that have the column (none of them: the empty set); the same
\* for get_all_regulators() and the regulator column.
C3_OneFieldIsSetOfValues ==
  /\ (ret.op = "get_all_one_field" /\ ret.arg[1] \in QueryableFields)
       => (ret.status = OK /\ ret.vals = FieldValues(net, heap, fs, ret.arg[1]))
  /\ ret.op = "get_all_regulators"
       => (ret.status = OK /\ ret.vals = FieldValues(net, heap, fs, "regulator"))

\* C3 witness: cell_type was asked of an instance with two files of which one
\* lacks the column and the other has it.
C3_Witness ==
  /\ ret.op = "get_all_one_field"
  /\ ret.arg = <<"cell_type">>
  /\ Len(FilesOf(net, heap)) = 2
  /\ \E i \in 1..2 : ~HasCol(fs[FilesOf(net, heap)[i]].columns, "cell_type")
  /\ ret.vals = {CT}

\* C4 (as claimed): when no edge lacks a target, the row counts of
\* get_regulators(t), summed over the t of get_all_one_field("target"), give
\* get_num_edges().
C4_RegulatorsSumToNumEdges ==
  (/\ ret.op = "get_num_edges"
   /\ ret.status = OK
   /\ WellFormed(net, heap, fs)
   /\ NoMissingTarget(net, heap, fs))
    => LET ts == SetToSeq(get_all_one_field(net, heap, fs, "target").vals)
           regs == [i \in 1..Len(ts) |-> get_regulators(net, heap, fs, ts[i])]
       IN /\ \A i \in 1..Len(ts) : regs[i].status = OK
          /\ SumSeq([i \in 1..Len(ts) |-> Len(regs[i].rows)]) = ret.num

C6_ConstituentsHaveContractedColumns ==
  (ret.op = "construct" /\ net.live) => WellFormed(net, heap, fs)

\* C7 (as claimed): no operation on an instance changes the instance, its
\* file list, the content of its files or its table, nor what get_all() returns.
C7_OperationsAreReadOnly ==
  [][net.live =>
       /\ net' = net
       /\ FilesOf(net, heap') = FilesOf(net, heap)
       /\ DfOf(net, heap') = DfOf(net, heap)
       /\ \A i \in 1..Len(FilesOf(net, heap)) :
            fs'[FilesOf(net, heap)[i]] = fs[FilesOf(net, heap)[i]]
       /\ get_all(net, heap', fs') = get_all(net, heap, fs)]_vars

\* C8 (as claimed): save() to a name without the .parquet ending raises the
\* invalid-argument error and writes nothing; a save() that writes leaves a
\* file from which alone get_all() gives the columns and rows that were saved.
C8_SaveThenReload ==
  [][ret'.op = "save" =>
       IF ~ValidSaveName(ret'.arg)
       THEN ret'.status = "ValueError" /\ fs' = fs
       ELSE ret'.status = OK =>
              /\ ReloadedAll(ret'.arg, fs').status = OK
              /\ ReloadedAll(ret'.arg, fs').columns = ret'.frame.columns
              /\ BagOf(ReloadedAll(ret'.arg, fs').rows) = BagOf(ret'.frame.rows)]_vars

\* C9: for an instance no two constituents of which share an edge,
\* get_num_edges() fails exactly when get_all() fails and otherwise equals the
\* number of rows of get_all().
C9_NumEdgesEqualsRowsOfGetAll ==
  (ret.op = "get_num_edges" /\ NoOverlap(net, heap, fs))
    => /\ (ret.status = OK) = (get_all(net, heap, fs).status = OK)
       /\ ret.status = OK => ret.num = Len(get_all(net, heap, fs).rows)

\* C9 witness: get_num_edges() answered for two files and a table, no edge shared.
C9_Witness ==
  /\ ret.op = "get_num_edges"
  /\ ret.status = OK
  /\ Len(FilesOf(net, heap)) = 2
  /\ net.df # 0
  /\ NoOverlap(net, heap, fs)
  /\ ret.num = 3

\* C10: copy() of an instance succeeds and gives an instance that holds the
\* very same file list object and table object, and the same get_all() result.
C10_CopySharesConstituents ==
  ret.op = "copy"
    => /\ ret.status = OK
       /\ cp.live
       /\ cp.files = net.files
       /\ cp.df = net.df
       /\ get_all(cp, heap, fs) = get_all(net, heap, fs)

\* C10 witness: an instance with a file and a table has been copied.
C10_Witness ==
  /\ ret.op = "copy"
  /\ cp.live
  /\ net.df # 0
  /\ Len(FilesOf(net, heap)) >= 1
  /\ Len(get_all(cp, heap, fs).rows) >= 2

====
